---------------------------- MODULE Spec2Model ----------------------------
(***************************************************************************)
(* Model of zbus_xmlgen/src/lib.rs: the signature walk that projects a     *)
(* D-Bus type signature to Rust type text (to_rust_type), the complexity   *)
(* estimate (estimate_type_complexity), the argument-list builders, the    *)
(* interface writer and the rustfmt post-processing step.                  *)
(*                                                                         *)
(* A signature is a sequence of one-character strings (its bytes); a text  *)
(* is a TLA+ string, built with \o as format!/join build it.               *)
(***************************************************************************)
EXTENDS Integers, Sequences, FiniteSets, TLC

VARIABLES
    node,             \* the complete type under test, as a tree
    sig,              \* its signature bytes (possibly with the last one cut)
    truncated,        \* whether the final byte of sig was removed
    overflow_checks,  \* build profile: TRUE panics on overflow, FALSE wraps
    res,              \* outcome of the last call made on sig
    args,             \* a member's argument list: [name, direction, ty]
    call,             \* outcome of the last call made on args
    gen,              \* the GenTrait: interface, service, path
    out,              \* outcome of write_interface on gen
    unformatted,      \* the bytes write_interface wrote, to be formatted
    cap,              \* capacity of each pipe between caller and rustfmt
    pc,               \* where GenTrait::fmt / format_generated_code stands
    pending,          \* bytes the caller still has to write to the child
    stdin_open,       \* whether the caller still holds the child's stdin
    stdin_pipe,       \* bytes in the pipe to the child
    child,            \* rustfmt: none, reading, writing, exited
    child_out,        \* bytes rustfmt still has to write
    stdout_pipe,      \* bytes in the pipe from the child
    result,           \* what format_generated_code returned
    rendered          \* what GenTrait::fmt wrote to the formatter f

sigvars == <<node, sig, truncated, overflow_checks, res>>

argvars == <<args, call>>

ifacevars == <<gen, out>>

fmtvars ==
    <<unformatted, cap, pc, pending, stdin_open, stdin_pipe, child, child_out,
      stdout_pipe, result, rendered>>

vars == <<sigvars, argvars, ifacevars, fmtvars>>

(***************************************************************************)
(* Bounds of the model.                                                    *)
(***************************************************************************)
MaxLen == 6

DeepLen == 15

MaxArgs == 3

MaxMethods == 3

MaxSignals == 2

MaxProps == 2

MaxPayload == 3

MaxCap == 2

MaxOut == 3

(***************************************************************************)
(* Cursor: std::iter::Peekable<std::slice::Iter<u8>>.                      *)
(***************************************************************************)
None == [some |-> FALSE, c |-> ""]

Some(c) == [some |-> TRUE, c |-> c]

\* Mutant: reading past the end yields a closing byte instead of None.
front_past_end(it) == IF it = <<>> THEN Some(")") ELSE Some(Head(it))

\* What it.peek() / it.next() see at the front of the iterator.
front(it) == IF it = <<>> THEN None ELSE Some(Head(it))

\* The iterator after it.next(); next() on an exhausted iterator leaves it so.
advance(it) == IF it = <<>> THEN <<>> ELSE Tail(it)

(***************************************************************************)
(* to_rust_type                                                            *)
(***************************************************************************)
Panic == [ok |-> FALSE, text |-> "", it |-> <<>>]

Ok(text, it) == [ok |-> TRUE, text |-> text, it |-> it]

\* The arms of the match for codes without sub-structure (lines 211-257);
\* "" for a code that has no such arm.
leaf_type(c, input, as_ref) ==
    CASE c = "y" -> "u8"
      [] c = "b" -> "bool"
      [] c = "n" -> "i16"
      [] c = "q" -> "u16"
      [] c = "i" -> "i32"
      [] c = "u" -> "u32"
      [] c = "x" -> "i64"
      [] c = "t" -> "u64"
      [] c = "d" -> "f64"
      [] c = "h" -> IF input THEN "zbus::zvariant::Fd<'_>"
                             ELSE "zbus::zvariant::OwnedFd"
      [] c = "s" -> IF input \/ as_ref THEN "&str" ELSE "String"
      [] c = "o" -> IF input
                    THEN IF as_ref THEN "&zbus::zvariant::ObjectPath<'_>"
                                   ELSE "zbus::zvariant::ObjectPath<'_>"
                    ELSE "zbus::zvariant::OwnedObjectPath"
      [] c = "g" -> IF input
                    THEN IF as_ref THEN "&zbus::zvariant::Signature<'_>"
                                   ELSE "zbus::zvariant::Signature<'_>"
                    ELSE "zbus::zvariant::OwnedSignature"
      [] c = "v" -> IF input
                    THEN IF as_ref THEN "&zbus::zvariant::Value<'_>"
                                   ELSE "zbus::zvariant::Value<'_>"
                    ELSE "zbus::zvariant::OwnedValue"
      [] OTHER -> ""

RECURSIVE join(_, _)
\* [String]::join
join(vec, sep) ==
    IF vec = <<>> THEN ""
    ELSE IF Len(vec) = 1 THEN vec[1]
    ELSE vec[1] \o sep \o join(Tail(vec), sep)

\* Mutant: the entries of a map are projected as owned output types.
map_elem_input_owned(input) == FALSE

\* The input flag handed to the dict-entry walk of a map (line 263).
map_elem_input(input) == input

\* The text of an array whose element is not a dict entry (lines 266-271).
array_text(ty, input, as_ref) ==
    IF input THEN "&[" \o ty \o "]"
    ELSE (IF as_ref THEN "&" ELSE "") \o "Vec<" \o ty \o ">"

\* The text of a struct or dict-entry block once its fields are collected
\* (lines 289-295); vec[0] of an empty vec panics.
block_text(vec, dict, as_ref, it) ==
    IF dict THEN Ok(join(vec, ", "), it)
    ELSE IF Len(vec) > 1
         THEN Ok((IF as_ref THEN "&" ELSE "") \o "(" \o join(vec, ", ") \o ")", it)
    ELSE IF Len(vec) = 1
         THEN Ok((IF as_ref THEN "&" ELSE "") \o "(" \o vec[1] \o ",)", it)
    ELSE Panic

RECURSIVE iter_to_rust_type(_, _, _)
RECURSIVE block_fields(_, _, _)

\* The loop of lines 278-288: [ok, vec, it].
block_fields(it, input, vec) ==
    LET p == front(it) IN
    IF ~p.some THEN [ok |-> FALSE, vec |-> <<>>, it |-> <<>>]
    ELSE IF p.c \in {")", "}"}
         THEN [ok |-> TRUE, vec |-> vec, it |-> advance(it)]
    ELSE LET f == iter_to_rust_type(it, input, FALSE) IN
         IF ~f.ok THEN [ok |-> FALSE, vec |-> <<>>, it |-> <<>>]
         ELSE block_fields(f.it, input, Append(vec, f.text))

iter_to_rust_type(it, input, as_ref) ==
    LET n == front(it) IN
    IF ~n.some THEN Panic
    ELSE LET c == n.c
             it1 == advance(it)
         IN
         IF c = "a"
         THEN LET p == front(it1) IN
              IF ~p.some THEN Panic
              ELSE IF p.c = "{"
                   THEN LET e == iter_to_rust_type(it1, map_elem_input(input), FALSE) IN
                        IF ~e.ok THEN Panic
                        ELSE Ok("std::collections::HashMap<" \o e.text \o ">", e.it)
              ELSE LET e == iter_to_rust_type(it1, input, FALSE) IN
                   IF ~e.ok THEN Panic
                   ELSE Ok(array_text(e.text, input, as_ref), e.it)
         ELSE IF c \in {"(", "{"}
         THEN LET b == block_fields(it1, input, <<>>) IN
              IF ~b.ok THEN Panic
              ELSE block_text(b.vec, c = "{", as_ref, b.it)
         ELSE IF leaf_type(c, input, as_ref) = "" THEN Panic
         ELSE Ok(leaf_type(c, input, as_ref), it1)

to_rust_type(ty, input, as_ref) == iter_to_rust_type(ty, input, as_ref)

(***************************************************************************)
(* estimate_type_complexity, in u32 arithmetic.  Each result carries ovf:  *)
(* whether some + or * left the u32 range (a panic with overflow checks,   *)
(* a wrapped value without).                                               *)
(***************************************************************************)
\* A u32 is kept as two 16-bit limbs, [hi, lo] standing for hi * 2^16 + lo.
Limb == 65536

u32(n) == [hi |-> n \div Limb, lo |-> n % Limb]

\* The number a u32 stands for, where it fits the model checker's integers.
u32_value(x) == x.hi * Limb + x.lo

StructBase == 50

TypeComplexityThreshold == 1700

\* x + y on u32: the wrapped sum, and whether the sum left the u32 range.
u32_add(x, y) ==
    LET lo == x.lo + y.lo
        hi == x.hi + y.hi + (lo \div Limb)
    IN  [v |-> [hi |-> hi % Limb, lo |-> lo % Limb], ovf |-> hi >= Limb]

\* k * x on u32, for a small literal factor k.
u32_mul(k, x) ==
    LET lo == k * x.lo
        hi == k * x.hi + (lo \div Limb)
    IN  [v |-> [hi |-> hi % Limb, lo |-> lo % Limb], ovf |-> hi >= Limb]

\* x >= n on u32, for a small literal n.
u32_ge(x, n) == x.hi > 0 \/ x.lo >= n

\* Mutant: a handle scores like a primitive.
leaf_complexity_flat(c) ==
    IF c \in {"y", "b", "n", "q", "i", "u", "x", "t", "d", "s", "h"} THEN 1 ELSE 0

\* score after the arms for codes without sub-structure (lines 342-357, 384),
\* starting from score = 0.
leaf_complexity(c) ==
    IF c \in {"y", "b", "n", "q", "i", "u", "x", "t", "d", "s"} THEN 0 + 1
    ELSE IF c = "h" THEN 0 + 10
    ELSE IF c \in {"g", "v", "o"} THEN 0 * 10
    ELSE 0

\* Mutant: a dict-entry block gets no flat weight.
block_base_struct_only(c) == IF c = "{" THEN 0 ELSE StructBase

\* score += 50 on entering a struct or dict-entry block (line 371).
block_base(c) == StructBase

EstPanic == [ok |-> FALSE, score |-> u32(0), ovf |-> FALSE, it |-> <<>>]

\* score += 5 * e (lines 366, 380).
add_weighted(score, e) ==
    LET m == u32_mul(5, e)
        s == u32_add(score, m.v)
    IN  [v |-> s.v, ovf |-> m.ovf \/ s.ovf]

RECURSIVE estimate_type_complexity(_)
RECURSIVE estimate_fields(_, _, _)

\* The loop of lines 372-382.
estimate_fields(it, score, ovf) ==
    LET p == front(it) IN
    IF ~p.some THEN EstPanic
    ELSE IF p.c \in {")", "}"}
         THEN [ok |-> TRUE, score |-> score, ovf |-> ovf, it |-> advance(it)]
    ELSE LET f == estimate_type_complexity(it) IN
         IF ~f.ok THEN EstPanic
         ELSE LET s == add_weighted(score, f.score) IN
              estimate_fields(f.it, s.v, ovf \/ f.ovf \/ s.ovf)

estimate_type_complexity(it) ==
    LET n == front(it) IN
    IF ~n.some THEN EstPanic
    ELSE LET c == n.c
             it1 == advance(it)
         IN
         IF c = "a"
         THEN LET p == front(it1) IN
              IF ~p.some THEN EstPanic
              ELSE LET e == estimate_type_complexity(it1) IN
                   IF ~e.ok THEN EstPanic
                   ELSE IF p.c = "{"
                        THEN LET s == u32_add(u32_mul(10, u32(0)).v, e.score) IN
                             [ok |-> TRUE, score |-> s.v, ovf |-> e.ovf \/ s.ovf,
                              it |-> e.it]
                   ELSE LET s == add_weighted(u32(0), e.score) IN
                        [ok |-> TRUE, score |-> s.v, ovf |-> e.ovf \/ s.ovf,
                         it |-> e.it]
         ELSE IF c \in {"(", "{"}
         THEN estimate_fields(it1, u32(0 + block_base(c)), FALSE)
         ELSE [ok |-> TRUE, score |-> u32(leaf_complexity(c)), ovf |-> FALSE, it |-> it1]

\* Whether hide_clippy_type_complexity_lint writes the allow attribute.
type_complexity_lint(score) == u32_ge(score, TypeComplexityThreshold)

(***************************************************************************)
(* Identifiers.  A name is a sequence of one-character strings.            *)
(***************************************************************************)
RECURSIVE Str(_)
\* The text of a sequence of characters.
Str(cs) == IF cs = <<>> THEN "" ELSE Head(cs) \o Str(Tail(cs))

KWORDS ==
    {"Self", "abstract", "as", "async", "await", "become", "box", "break", "const",
     "continue", "crate", "do", "dyn", "else", "enum", "extern", "false", "final",
     "fn", "for", "if", "impl", "in", "let", "loop", "macro", "match", "mod", "move",
     "mut", "override", "priv", "pub", "ref", "return", "self", "static", "struct",
     "super", "trait", "true", "try", "type", "typeof", "union", "unsafe", "unsized",
     "use", "virtual", "where", "while", "yield"}

\* to_identifier: a keyword gets a trailing '_', any other id its '-' as '_'.
to_identifier(id) ==
    IF Str(id) \in KWORDS THEN Append(id, "_")
    ELSE [i \in 1..Len(id) |-> IF id[i] = "-" THEN "_" ELSE id[i]]

Digits == <<"0", "1", "2", "3", "4", "5", "6", "7", "8", "9">>

Upper ==
    <<"A", "B", "C", "D", "E", "F", "G", "H", "I", "J", "K", "L", "M",
      "N", "O", "P", "Q", "R", "S", "T", "U", "V", "W", "X", "Y", "Z">>

Lower ==
    <<"a", "b", "c", "d", "e", "f", "g", "h", "i", "j", "k", "l", "m",
      "n", "o", "p", "q", "r", "s", "t", "u", "v", "w", "x", "y", "z">>

IndexIn(table, c) == CHOOSE i \in 1..Len(table) : table[i] = c

is_upper(c) == \E i \in 1..Len(Upper) : Upper[i] = c

is_lower(c) == \E i \in 1..Len(Lower) : Lower[i] = c

is_digit(c) == \E i \in 1..Len(Digits) : Digits[i] = c

to_ascii_uppercase(c) == IF is_lower(c) THEN Upper[IndexIn(Lower, c)] ELSE c

to_ascii_lowercase(c) == IF is_upper(c) THEN Lower[IndexIn(Upper, c)] ELSE c

\* The byte of an ASCII letter, digit, '-', '.' or '_'.
byte(c) ==
    IF is_upper(c) THEN 64 + IndexIn(Upper, c)
    ELSE IF is_lower(c) THEN 96 + IndexIn(Lower, c)
    ELSE IF is_digit(c) THEN 47 + IndexIn(Digits, c)
    ELSE IF c = "-" THEN 45
    ELSE IF c = "." THEN 46
    ELSE 95

RECURSIVE pascal_loop(_, _, _)
\* The loop of pascal_case over the remaining characters.
pascal_loop(rest, pascal, capitalize) ==
    IF rest = <<>> THEN pascal
    ELSE LET ch == Head(rest) IN
         IF ch = "_" THEN pascal_loop(Tail(rest), pascal, TRUE)
         ELSE IF capitalize
              THEN pascal_loop(Tail(rest), Append(pascal, to_ascii_uppercase(ch)), FALSE)
         ELSE pascal_loop(Tail(rest), Append(pascal, ch), FALSE)

pascal_case(s) == pascal_loop(s, <<>>, TRUE)

RECURSIVE snake_loop(_, _, _)
\* snakecase::ascii::to_snakecase on an ASCII name: words are split before an
\* upper-case letter that follows a lower-case letter or digit, and at '-',
\* and joined in lower case by '_'.
snake_loop(rest, snake, prev) ==
    IF rest = <<>> THEN snake
    ELSE LET ch == Head(rest) IN
         IF ch \in {"-", "_"}
         THEN snake_loop(Tail(rest), IF snake = <<>> THEN snake ELSE Append(snake, "_"), ch)
         ELSE IF is_upper(ch) /\ (is_lower(prev) \/ is_digit(prev))
              THEN snake_loop(Tail(rest), snake \o <<"_", to_ascii_lowercase(ch)>>, ch)
         ELSE snake_loop(Tail(rest), Append(snake, to_ascii_lowercase(ch)), ch)

to_snakecase(s) == snake_loop(s, <<>>, "")

RECURSIVE to_decimal(_)
\* Display of an integer, as format!("{n}") writes it.
to_decimal(n) ==
    IF n < 10 THEN Digits[n + 1] ELSE to_decimal(n \div 10) \o Digits[(n % 10) + 1]

\* gen_name after n += 1 (lines 149-152).
gen_name(n) == "arg_" \o to_decimal(n)

(***************************************************************************)
(* inputs_output_from_args and parse_signal_args                           *)
(***************************************************************************)
NoName == [some |-> FALSE, s |-> <<>>]

Name(s) == [some |-> TRUE, s |-> s]

Arg(name, direction, ty) == [name |-> name, direction |-> direction, ty |-> ty]

\* The match on a.direction() (lines 155-156, 165): None | Some(In) is an input.
is_input_arg(direction) == direction \in {"none", "in"}

\* Mutant: a method input is projected like a signal argument.
method_input_type_owned(ty) == to_rust_type(ty, TRUE, FALSE)

\* Line 157.
method_input_type(ty) == to_rust_type(ty, TRUE, TRUE)

\* Line 166.
method_output_type(ty) == to_rust_type(ty, FALSE, FALSE)

\* Line 190.
signal_arg_type(ty) == to_rust_type(ty, TRUE, FALSE)

\* Mutant: a single output is wrapped in a one-tuple.
output_shape_tupled(output) ==
    IF Len(output) = 0 THEN "()" ELSE "(" \o join(output, ", ") \o ")"

\* Lines 172-176.
output_shape(output) ==
    IF Len(output) = 0 THEN "()"
    ELSE IF Len(output) = 1 THEN output[1]
    ELSE "(" \o join(output, ", ") \o ")"

ArgsPanic == [ok |-> FALSE, inputs |-> "", output |-> ""]

RECURSIVE method_args_loop(_, _, _, _)
\* The loop of lines 154-170 over the remaining arguments, with the inputs and
\* output vectors and the counter n of gen_name as they stand.
method_args_loop(rest, inputs, output, n) ==
    IF rest = <<>> THEN [ok |-> TRUE, inputs |-> inputs, output |-> output]
    ELSE LET a == Head(rest) IN
         IF is_input_arg(a.direction)
         THEN LET ty == method_input_type(a.ty)
                  n1 == IF a.name.some THEN n ELSE n + 1
                  arg == IF a.name.some THEN Str(to_identifier(a.name.s)) ELSE gen_name(n1)
              IN  IF ~ty.ok THEN [ok |-> FALSE, inputs |-> <<>>, output |-> <<>>]
                  ELSE method_args_loop(Tail(rest),
                                        Append(inputs, arg \o ": " \o ty.text), output, n1)
         ELSE LET ty == method_output_type(a.ty) IN
              IF ~ty.ok THEN [ok |-> FALSE, inputs |-> <<>>, output |-> <<>>]
              ELSE method_args_loop(Tail(rest), inputs, Append(output, ty.text), n)

inputs_output_from_args(as) ==
    LET r == method_args_loop(as, <<"&self">>, <<>>, 0) IN
    IF ~r.ok THEN ArgsPanic
    ELSE [ok |-> TRUE,
          inputs |-> join(r.inputs, ", "),
          output |-> " -> zbus::Result<" \o output_shape(r.output) \o ">"]

RECURSIVE signal_args_loop(_, _, _)
\* The loop of lines 189-197.
signal_args_loop(rest, inputs, n) ==
    IF rest = <<>> THEN [ok |-> TRUE, inputs |-> inputs]
    ELSE LET a == Head(rest)
             ty == signal_arg_type(a.ty)
             n1 == IF a.name.some THEN n ELSE n + 1
             arg == IF a.name.some THEN Str(to_identifier(a.name.s)) ELSE gen_name(n1)
         IN  IF ~ty.ok THEN [ok |-> FALSE, inputs |-> <<>>]
             ELSE signal_args_loop(Tail(rest), Append(inputs, arg \o ": " \o ty.text), n1)

parse_signal_args(as) ==
    LET r == signal_args_loop(as, <<"&self">>, 0) IN
    IF ~r.ok THEN ArgsPanic
    ELSE [ok |-> TRUE, inputs |-> join(r.inputs, ", "), output |-> ""]

(***************************************************************************)
(* write_interface.  A written text is [ok, text]; ok = FALSE is a panic.  *)
(***************************************************************************)
NL == "\n"

Written(text) == [ok |-> TRUE, text |-> text]

WritePanic == [ok |-> FALSE, text |-> ""]

\* w followed by what a later step writes.
then(w, next) == IF w.ok /\ next.ok THEN Written(w.text \o next.text) ELSE WritePanic

RECURSIVE bytes_cmp(_, _)
\* str::cmp: the order of the first differing byte, a prefix before its extensions.
bytes_cmp(a, b) ==
    IF a = <<>> THEN (IF b = <<>> THEN "equal" ELSE "less")
    ELSE IF b = <<>> THEN "greater"
    ELSE IF byte(Head(a)) < byte(Head(b)) THEN "less"
    ELSE IF byte(Head(a)) > byte(Head(b)) THEN "greater"
    ELSE bytes_cmp(Tail(a), Tail(b))

\* Mutant: names are compared without regard to case.
name_less_ignore_case(a, b) ==
    bytes_cmp([i \in 1..Len(a) |-> to_ascii_lowercase(a[i])],
              [i \in 1..Len(b) |-> to_ascii_lowercase(b[i])]) = "less"

\* a.name().partial_cmp(&b.name()).unwrap() == Less (lines 57, 71, 86).
name_less(a, b) == bytes_cmp(a, b) = "less"

RECURSIVE insert_by_name(_, _)
\* x put before the first element it is less than: a stable insertion.
insert_by_name(sorted, x) ==
    IF sorted = <<>> THEN <<x>>
    ELSE IF name_less(x.name, Head(sorted).name) THEN <<x>> \o sorted
    ELSE <<Head(sorted)>> \o insert_by_name(Tail(sorted), x)

RECURSIVE sort_loop(_, _)
sort_loop(rest, sorted) ==
    IF rest = <<>> THEN sorted
    ELSE sort_loop(Tail(rest), insert_by_name(sorted, Head(rest)))

\* Vec::sort_by on the member names: a stable sort.
sort_by_name(members) == sort_loop(members, <<>>)

\* hide_clippy_type_complexity_lint (lines 133-143).
hide_clippy_type_complexity_lint(signature, checks) ==
    LET e == estimate_type_complexity(signature) IN
    IF ~e.ok \/ (e.ovf /\ checks) THEN WritePanic
    ELSE IF type_complexity_lint(e.score)
         THEN Written("    #[allow(clippy::type_complexity)]" \o NL)
    ELSE Written("")

RECURSIVE lint_args_loop(_, _)
\* The loop of lines 125-128.
lint_args_loop(rest, checks) ==
    IF rest = <<>> THEN Written("")
    ELSE then(hide_clippy_type_complexity_lint(Head(rest).ty, checks),
              lint_args_loop(Tail(rest), checks))

\* hide_clippy_lints (lines 117-131).
hide_clippy_lints(method, checks) ==
    then(IF Len(method.args) >= 7
         THEN Written("    #[allow(clippy::too_many_arguments)]" \o NL)
         ELSE Written(""),
         lint_args_loop(method.args, checks))

\* The body of the loop over the methods (lines 59-67).
write_method(m, checks) ==
    LET io == inputs_output_from_args(m.args)
        name == to_identifier(to_snakecase(m.name))
    IN
    IF ~io.ok THEN WritePanic
    ELSE then(Written(NL \o "    /// " \o Str(m.name) \o " method" \o NL
                      \o (IF pascal_case(name) /= m.name
                          THEN "    #[zbus(name = \"" \o Str(m.name) \o "\")]" \o NL
                          ELSE "")),
         then(hide_clippy_lints(m, checks),
              Written("    fn " \o Str(name) \o "(" \o io.inputs \o ")" \o io.output
                      \o ";" \o NL)))

\* The body of the loop over the signals (lines 73-82).
write_signal(signal) ==
    LET as == parse_signal_args(signal.args)
        name == to_identifier(to_snakecase(signal.name))
    IN
    IF ~as.ok THEN WritePanic
    ELSE Written(NL \o "    /// " \o Str(signal.name) \o " signal" \o NL
                 \o (IF pascal_case(name) /= signal.name
                     THEN "    #[zbus(signal, name = \"" \o Str(signal.name) \o "\")]" \o NL
                     ELSE "    #[zbus(signal)]" \o NL)
                 \o "    fn " \o Str(name) \o "(" \o as.inputs \o ") -> zbus::Result<()>;"
                 \o NL)

\* The body of the loop over the properties (lines 88-111).
write_property(p, checks) ==
    LET name == to_identifier(to_snakecase(p.name))
        fn_attribute == IF pascal_case(name) /= p.name
                        THEN "    #[zbus(property, name = \"" \o Str(p.name) \o "\")]"
                        ELSE "    #[zbus(property)]"
        output == to_rust_type(p.ty, FALSE, FALSE)
        input == to_rust_type(p.ty, TRUE, TRUE)
    IN
    then(Written(NL \o "    /// " \o Str(p.name) \o " property" \o NL),
    then(IF ~p.read THEN Written("")
         ELSE IF ~output.ok THEN WritePanic
         ELSE then(Written(fn_attribute \o NL),
              then(hide_clippy_type_complexity_lint(p.ty, checks),
                   Written("    fn " \o Str(name) \o "(&self) -> zbus::Result<"
                           \o output.text \o ">;" \o NL))),
         IF ~p.write THEN Written("")
         ELSE IF ~input.ok THEN WritePanic
         ELSE Written(fn_attribute \o NL \o "    fn set_" \o Str(name)
                      \o "(&self, value: " \o input.text \o ") -> zbus::Result<()>;"
                      \o NL)))

RECURSIVE write_methods(_, _)
write_methods(ms, checks) ==
    IF ms = <<>> THEN Written("")
    ELSE then(write_method(Head(ms), checks), write_methods(Tail(ms), checks))

RECURSIVE write_signals(_)
write_signals(ss) ==
    IF ss = <<>> THEN Written("") ELSE then(write_signal(Head(ss)), write_signals(Tail(ss)))

RECURSIVE write_properties(_, _)
write_properties(ps, checks) ==
    IF ps = <<>> THEN Written("")
    ELSE then(write_property(Head(ps), checks), write_properties(Tail(ps), checks))

\* iface.name().rfind('.'): the last index holding '.', 0 for None.
rfind_dot(name) ==
    IF \E i \in 1..Len(name) : name[i] = "."
    THEN CHOOSE i \in 1..Len(name) :
            name[i] = "." /\ \A j \in (i + 1)..Len(name) : name[j] /= "."
    ELSE 0

\* Lines 39-54: the proxy attribute and the opening of the trait.
write_header(g) ==
    LET iface == g.interface
        idx == rfind_dot(iface.name)
    IN
    IF idx = 0 THEN WritePanic
    ELSE Written("#[proxy(interface = \"" \o Str(iface.name) \o "\""
                 \o (IF g.service.some
                     THEN ", default_service = \"" \o Str(g.service.s) \o "\"" ELSE "")
                 \o (IF g.path.some
                     THEN ", default_path = \"" \o Str(g.path.s) \o "\"" ELSE "")
                 \o (IF ~g.path.some \/ ~g.service.some
                     THEN ", assume_defaults = true" ELSE "")
                 \o ")]" \o NL
                 \o "trait " \o Str(SubSeq(iface.name, idx + 1, Len(iface.name)))
                 \o " {" \o NL)

\* What write_interface writes once the three lists are in emission order.
write_members(g, methods, signals, props, checks) ==
    then(write_header(g),
    then(write_methods(methods, checks),
    then(write_signals(signals),
    then(write_properties(props, checks),
         Written("}" \o NL)))))

\* GenTrait::write_interface (lines 38-114).
write_interface(g, checks) ==
    write_members(g,
                  sort_by_name(g.interface.methods),
                  sort_by_name(g.interface.signals),
                  sort_by_name(g.interface.properties),
                  checks)

(***************************************************************************)
(* Complete types, as trees, and their signatures.                         *)
(***************************************************************************)
Leaf(c) == [k |-> "leaf", c |-> c]

Array(e) == [k |-> "array", e |-> e]

Map(key, val) == [k |-> "map", key |-> key, val |-> val]

Struct(fs) == [k |-> "struct", fs |-> fs]

RECURSIVE Serialize(_)
RECURSIVE SerializeAll(_)

SerializeAll(fs) ==
    IF fs = <<>> THEN <<>> ELSE Serialize(Head(fs)) \o SerializeAll(Tail(fs))

Serialize(t) ==
    CASE t.k = "leaf" -> <<t.c>>
      [] t.k = "array" -> <<"a">> \o Serialize(t.e)
      [] t.k = "map" -> <<"a", "{">> \o Serialize(t.key) \o Serialize(t.val) \o <<"}">>
      [] t.k = "struct" -> <<"(">> \o SerializeAll(t.fs) \o <<")">>

LeafCodes == {"y", "s", "h", "o", "v"}

KeyCodes == {"s", "y"}

NoRes == [op |-> "none"]

(***************************************************************************)
(* The signature under test: built from a leaf outwards.                   *)
(***************************************************************************)
SetType(t) ==
    /\ node' = t
    /\ sig' = Serialize(t)
    /\ truncated' = FALSE
    /\ res' = NoRes
    /\ UNCHANGED <<overflow_checks, argvars, ifacevars, fmtvars>>

NewLeaf == \E c \in LeafCodes : SetType(Leaf(c))

WrapArray(maxlen) ==
    /\ ~truncated
    /\ Len(sig) + 1 <= maxlen
    /\ SetType(Array(node))

WrapMap ==
    /\ ~truncated
    /\ Len(sig) + 4 <= MaxLen
    /\ \E key \in KeyCodes : SetType(Map(Leaf(key), node))

WrapStruct(maxlen) ==
    /\ ~truncated
    /\ Len(sig) + 2 <= maxlen
    /\ SetType(Struct(<<node>>))

AppendField ==
    /\ ~truncated
    /\ node.k = "struct"
    /\ Len(sig) + 1 <= MaxLen
    /\ \E c \in LeafCodes : SetType(Struct(Append(node.fs, Leaf(c))))

\* Remove the final byte of a compound signature.
Truncate ==
    /\ ~truncated
    /\ node.k /= "leaf"
    /\ sig' = SubSeq(sig, 1, Len(sig) - 1)
    /\ truncated' = TRUE
    /\ res' = NoRes
    /\ UNCHANGED <<node, overflow_checks, argvars, ifacevars, fmtvars>>

\* hide_clippy_type_complexity_lint(signature): lines 137-141.
Estimate ==
    /\ res.op = "none"
    /\ LET e == estimate_type_complexity(sig) IN
       res' = IF ~e.ok \/ (e.ovf /\ overflow_checks)
              THEN [op |-> "estimate", ok |-> FALSE, score |-> u32(0), ovf |-> e.ovf,
                    lint |-> FALSE]
              ELSE [op |-> "estimate", ok |-> TRUE, score |-> e.score, ovf |-> e.ovf,
                    lint |-> type_complexity_lint(e.score)]
    /\ UNCHANGED <<node, sig, truncated, overflow_checks, argvars, ifacevars, fmtvars>>

\* to_rust_type(ty, input, as_ref): lines 301-302.
Project ==
    /\ res.op = "none"
    /\ \E input \in BOOLEAN, as_ref \in BOOLEAN :
          LET r == to_rust_type(sig, input, as_ref) IN
          res' = [op |-> "project", input |-> input, as_ref |-> as_ref,
                  ok |-> r.ok, text |-> r.text]
    /\ UNCHANGED <<node, sig, truncated, overflow_checks, argvars, ifacevars, fmtvars>>

\* The part of the state a specification does not exercise stays as it starts.
SigStart ==
    /\ node \in {Leaf(c) : c \in LeafCodes}
    /\ sig = Serialize(node)
    /\ truncated = FALSE
    /\ overflow_checks \in BOOLEAN
    /\ res = NoRes

SigIdle ==
    /\ SigStart
    /\ node = Leaf("y")
    /\ overflow_checks

ArgStart ==
    /\ args = <<>>
    /\ call = NoRes

IfaceName == <<"o", "r", "g", ".", "D", "e", "m", "o">>

ServiceName == <<"o", "r", "g", ".", "d", "e", "m", "o">>

PathName == <<"-", "o", "r", "g">>

NoMembers == [name |-> IfaceName, methods |-> <<>>, signals |-> <<>>, properties |-> <<>>]

IfaceStart ==
    /\ gen \in [interface : {NoMembers},
                service : {NoName, Name(ServiceName)},
                path : {NoName, Name(PathName)}]
    /\ out = NoRes

IfaceIdle ==
    /\ IfaceStart
    /\ ~gen.service.some
    /\ ~gen.path.some

\* n bytes of generated text.
Generated(n) == [i \in 1..n |-> "g"]

\* n bytes of rustfmt output.
Formatted(n) == [i \in 1..n |-> "f"]

FmtStart ==
    /\ unformatted \in {Generated(n) : n \in 1..MaxPayload}
    /\ cap \in 1..MaxCap
    /\ pc = "fmt"
    /\ pending = <<>>
    /\ stdin_open = FALSE
    /\ stdin_pipe = <<>>
    /\ child = "none"
    /\ child_out = <<>>
    /\ stdout_pipe = <<>>
    /\ result = "none"
    /\ rendered = <<>>

FmtIdle ==
    /\ FmtStart
    /\ unformatted = Generated(1)
    /\ cap = 1

SigInit == SigStart /\ ArgStart /\ IfaceIdle /\ FmtIdle

SigNext ==
    \/ NewLeaf
    \/ WrapArray(MaxLen)
    \/ WrapMap
    \/ WrapStruct(MaxLen)
    \/ AppendField
    \/ Truncate
    \/ Estimate
    \/ Project

SpecSig == SigInit /\ [][SigNext]_vars

(***************************************************************************)
(* A member's argument list, and the two builders applied to it.           *)
(***************************************************************************)
ArgNames == {NoName, Name(<<"t", "y", "p", "e">>)}

ArgDirections == {"none", "in", "out"}

ArgTypes == {<<"s">>, <<"o">>, <<"(", "y", "v", ")">>}

AddArg ==
    /\ Len(args) < MaxArgs
    /\ \E name \in ArgNames, direction \in ArgDirections, ty \in ArgTypes :
          args' = Append(args, Arg(name, direction, ty))
    /\ call' = NoRes
    /\ UNCHANGED <<sigvars, ifacevars, fmtvars>>

\* let (inputs, output) = inputs_output_from_args(m.args()): line 59.
CallMethod ==
    /\ call.op = "none"
    /\ LET r == inputs_output_from_args(args) IN
       call' = [op |-> "method", ok |-> r.ok, inputs |-> r.inputs, output |-> r.output]
    /\ UNCHANGED <<args, sigvars, ifacevars, fmtvars>>

\* let args = parse_signal_args(signal.args()): line 73.
CallSignal ==
    /\ call.op = "none"
    /\ LET r == parse_signal_args(args) IN
       call' = [op |-> "signal", ok |-> r.ok, inputs |-> r.inputs, output |-> r.output]
    /\ UNCHANGED <<args, sigvars, ifacevars, fmtvars>>

ArgsNext ==
    \/ AddArg
    \/ CallMethod
    \/ CallSignal

ArgsInit == SigIdle /\ ArgStart /\ IfaceIdle /\ FmtIdle

SpecArgs == ArgsInit /\ [][ArgsNext]_vars

(***************************************************************************)
(* An interface description, in document order, and its rendering.         *)
(***************************************************************************)
MemberNames == {<<"Z", "e", "t", "a">>, <<"A", "l", "p", "h", "a">>, <<"b", "e", "t", "a">>}

MethodArgLists ==
    {<<Arg(Name(<<"t", "y", "p", "e">>), "in", <<"a", "{", "s", "v", "}">>),
       Arg(NoName, "out", <<"o">>)>>}

SignalArgLists == {<<Arg(NoName, "none", <<"(", "y", "v", ")">>)>>}

Names(members) == {members[i].name : i \in 1..Len(members)}

SetInterface(iface) ==
    /\ gen' = [gen EXCEPT !.interface = iface]
    /\ out' = NoRes
    /\ UNCHANGED <<sigvars, argvars, fmtvars>>

AddMethod ==
    /\ Len(gen.interface.methods) < MaxMethods
    /\ \E name \in MemberNames \ Names(gen.interface.methods), as \in MethodArgLists :
          SetInterface([gen.interface EXCEPT
                           !.methods = Append(@, [name |-> name, args |-> as])])

AddSignal ==
    /\ Len(gen.interface.signals) < MaxSignals
    /\ \E name \in MemberNames \ Names(gen.interface.signals), as \in SignalArgLists :
          SetInterface([gen.interface EXCEPT
                           !.signals = Append(@, [name |-> name, args |-> as])])

AddProperty ==
    /\ Len(gen.interface.properties) < MaxProps
    /\ \E name \in MemberNames \ Names(gen.interface.properties) :
          SetInterface([gen.interface EXCEPT
                           !.properties = Append(@, [name |-> name, ty |-> <<"a", "s">>,
                                                     read |-> TRUE, write |-> TRUE])])

\* self.write_interface(&mut unformatted): line 23.
Render ==
    /\ out.op = "none"
    /\ LET w == write_interface(gen, overflow_checks) IN
       out' = [op |-> "write", ok |-> w.ok, text |-> w.text]
    /\ UNCHANGED <<gen, sigvars, argvars, fmtvars>>

IfaceNext ==
    \/ AddMethod
    \/ AddSignal
    \/ AddProperty
    \/ Render

IfaceInit == SigIdle /\ ArgStart /\ IfaceStart /\ FmtIdle

SpecIface == IfaceInit /\ [][IfaceNext]_vars

(***************************************************************************)
(* GenTrait::fmt and format_generated_code: the caller and the rustfmt     *)
(* child, joined by two pipes of capacity cap.                             *)
(***************************************************************************)
NotFmt == <<sigvars, argvars, ifacevars>>

\* format_generated_code returned Err(e): fmt falls back (lines 27-30, 33).
ReturnErr ==
    /\ pc' = "done"
    /\ result' = "err"
    /\ rendered' = unformatted

\* Command::new("rustfmt")...spawn()? (lines 392-398), then the bytes of
\* writeln!(rustfmt_stdin) and write_all are due (lines 401-402).
Spawn ==
    /\ pc = "fmt"
    /\ \/ /\ pc' = "write"
          /\ child' = "reading"
          /\ stdin_open' = TRUE
          /\ pending' = <<NL>> \o unformatted
          /\ UNCHANGED <<result, rendered>>
       \/ /\ ReturnErr
          /\ UNCHANGED <<child, stdin_open, pending>>
    /\ UNCHANGED <<unformatted, cap, stdin_pipe, child_out, stdout_pipe, NotFmt>>

\* One byte of writeln!/write_all goes into the pipe; a full pipe blocks it.
WriteByte ==
    /\ pc = "write"
    /\ pending /= <<>>
    /\ child /= "exited"
    /\ Len(stdin_pipe) < cap
    /\ stdin_pipe' = Append(stdin_pipe, Head(pending))
    /\ pending' = Tail(pending)
    /\ UNCHANGED <<unformatted, cap, pc, stdin_open, child, child_out, stdout_pipe,
                   result, rendered, NotFmt>>

\* A write to a pipe whose reader is gone fails (EPIPE): the ? of lines 401-402.
WriteBrokenPipe ==
    /\ pc = "write"
    /\ pending /= <<>>
    /\ child = "exited"
    /\ ReturnErr
    /\ UNCHANGED <<unformatted, cap, pending, stdin_open, stdin_pipe, child, child_out,
                   stdout_pipe, NotFmt>>

\* process.wait() first closes the child's stdin (line 404).
WaitClosesStdin ==
    /\ pc = "write"
    /\ pending = <<>>
    /\ pc' = "wait"
    /\ stdin_open' = FALSE
    /\ UNCHANGED <<unformatted, cap, pending, stdin_pipe, child, child_out, stdout_pipe,
                   result, rendered, NotFmt>>

\* process.wait() returns once the child has exited (line 404).
WaitReturns ==
    /\ pc = "wait"
    /\ child = "exited"
    /\ pc' = "read"
    /\ UNCHANGED <<unformatted, cap, pending, stdin_open, stdin_pipe, child, child_out,
                   stdout_pipe, result, rendered, NotFmt>>

\* read_to_string drains the pipe of the exited child; Ok(formatted) is
\* returned and written by fmt (lines 405-408, 26, 33).
ReadToString ==
    /\ pc = "read"
    /\ stdout_pipe' = <<>>
    /\ pc' = "done"
    /\ result' = "ok"
    /\ rendered' = stdout_pipe
    /\ UNCHANGED <<unformatted, cap, pending, stdin_open, stdin_pipe, child, child_out,
                   NotFmt>>

\* rustfmt reads its standard input to the end.
ChildReads ==
    /\ child = "reading"
    /\ stdin_pipe /= <<>>
    /\ stdin_pipe' = Tail(stdin_pipe)
    /\ UNCHANGED <<unformatted, cap, pc, pending, stdin_open, child, child_out,
                   stdout_pipe, result, rendered, NotFmt>>

\* At end of input rustfmt either has formatted text to write, or rejects the
\* input and exits with nothing on its standard output.
ChildAtEof ==
    /\ child = "reading"
    /\ stdin_pipe = <<>>
    /\ ~stdin_open
    /\ \/ \E n \in 1..MaxOut : child' = "writing" /\ child_out' = Formatted(n)
       \/ child' = "exited" /\ child_out' = <<>>
    /\ UNCHANGED <<unformatted, cap, pc, pending, stdin_open, stdin_pipe, stdout_pipe,
                   result, rendered, NotFmt>>

\* rustfmt writes a byte of its output; a full pipe blocks it.
ChildWrites ==
    /\ child = "writing"
    /\ child_out /= <<>>
    /\ Len(stdout_pipe) < cap
    /\ stdout_pipe' = Append(stdout_pipe, Head(child_out))
    /\ child_out' = Tail(child_out)
    /\ UNCHANGED <<unformatted, cap, pc, pending, stdin_open, stdin_pipe, child, result,
                   rendered, NotFmt>>

\* rustfmt exits once its output is written.
ChildExits ==
    /\ child = "writing"
    /\ child_out = <<>>
    /\ child' = "exited"
    /\ UNCHANGED <<unformatted, cap, pc, pending, stdin_open, stdin_pipe, child_out,
                   stdout_pipe, result, rendered, NotFmt>>

\* rustfmt exits early without reading on (a toolchain shim without the
\* component, a crash): the bytes in its input pipe are lost.
ChildDies ==
    /\ child = "reading"
    /\ child' = "exited"
    /\ stdin_pipe' = <<>>
    /\ UNCHANGED <<unformatted, cap, pc, pending, stdin_open, child_out, stdout_pipe,
                   result, rendered, NotFmt>>

FmtNext ==
    \/ Spawn
    \/ WriteByte
    \/ WriteBrokenPipe
    \/ WaitClosesStdin
    \/ WaitReturns
    \/ ReadToString
    \/ ChildReads
    \/ ChildAtEof
    \/ ChildWrites
    \/ ChildExits
    \/ ChildDies

FmtInit == SigIdle /\ ArgStart /\ IfaceIdle /\ FmtStart

SpecFmt == FmtInit /\ [][FmtNext]_vars

\* Array and struct nesting far deeper than MaxLen allows, around one leaf.
DeepNext ==
    \/ WrapArray(DeepLen)
    \/ WrapStruct(DeepLen)
    \/ Estimate

SpecDeep == SigInit /\ [][DeepNext]_vars

(***************************************************************************)
(* The weight table of the complexity estimate, over type trees.           *)
(***************************************************************************)
RECURSIVE InTableClass(_)
RECURSIVE AllInTableClass(_)

AllInTableClass(fs) ==
    fs = <<>> \/ (InTableClass(Head(fs)) /\ AllInTableClass(Tail(fs)))

\* Primitive codes, plain strings, handles, non-map arrays and structs.
InTableClass(t) ==
    CASE t.k = "leaf" -> t.c \in {"y", "b", "n", "q", "i", "u", "x", "t", "d", "s", "h"}
      [] t.k = "array" -> InTableClass(t.e)
      [] t.k = "struct" -> AllInTableClass(t.fs)
      [] OTHER -> FALSE

RECURSIVE TableScore(_)
RECURSIVE TableFieldsScore(_)

TableFieldsScore(fs) ==
    IF fs = <<>> THEN 0 ELSE 5 * TableScore(Head(fs)) + TableFieldsScore(Tail(fs))

TableScore(t) ==
    CASE t.k = "leaf" -> IF t.c = "h" THEN 10 ELSE 1
      [] t.k = "array" -> 5 * TableScore(t.e)
      [] t.k = "struct" -> 50 + TableFieldsScore(t.fs)

Estimated == res.op = "estimate" /\ ~truncated

Projected == res.op = "project" /\ ~truncated

\* C1: for a signature of primitives, plain strings, handles, non-map arrays
\* and structs (of at most MaxLen bytes) the estimate is the weight-table score (1 per primitive or
\* string, 10 per handle, 5 x element for an array, 50 + 5 x each field for a
\* struct), e.g. 1 for y, 60 for (yy), 300 for a(yy).
C1_WeightTable ==
    (Estimated /\ InTableClass(node)) =>
        /\ res.ok
        /\ u32_value(res.score) = TableScore(node)
        /\ (sig = <<"y">> => u32_value(res.score) = 1)
        /\ (sig = <<"(", "y", "y", ")">> => u32_value(res.score) = 60)
        /\ (sig = <<"a", "(", "y", "y", ")">> => u32_value(res.score) = 300)

C1_Witness ==
    /\ Estimated
    /\ sig = <<"a", "(", "y", "h", ")">>
    /\ u32_value(res.score) = 525

\* C2 as claimed: a map a{KV} scores exactly the estimate of V; the key and
\* the dict entry itself add nothing.
C2_MapAddsValueOnly ==
    (Estimated /\ node.k = "map") =>
        res.ok /\ res.score = estimate_type_complexity(Serialize(node.val)).score

\* C2 as amended: a map a{KV} scores 10 x 0 plus the estimate of the dict
\* entry {KV}, which is scored as a block: 50 + 5 x estimate(K) + 5 x
\* estimate(V).
C2_MapScoresEntry ==
    (Estimated /\ node.k = "map") =>
        /\ res.ok
        /\ u32_value(res.score) =
              50 + 5 * u32_value(estimate_type_complexity(Serialize(node.key)).score)
                 + 5 * u32_value(estimate_type_complexity(Serialize(node.val)).score)

C2_Witness ==
    /\ Estimated
    /\ sig = <<"a", "{", "s", "a", "y", "}">>
    /\ u32_value(res.score) = 80

\* C3 as claimed: the text of a map is the same for input = true and
\* input = false, and for either value of as_ref.
C3_MapSameInEveryPosition ==
    (Projected /\ node.k = "map") =>
        /\ res.text = to_rust_type(sig, ~res.input, res.as_ref).text
        /\ res.text = to_rust_type(sig, res.input, ~res.as_ref).text

\* C3 as amended: the text of a map a{KV} does not depend on as_ref, and is
\* HashMap<K', V'> with K' and V' projected with the caller's input flag and
\* as_ref = false; a{sv} is HashMap<String, OwnedValue> as an output and
\* HashMap<&str, Value<'_>> as an input.
C3_MapFollowsInputOnly ==
    (Projected /\ node.k = "map") =>
        /\ res.ok
        /\ res.text = to_rust_type(sig, res.input, ~res.as_ref).text
        /\ res.text = "std::collections::HashMap<"
                        \o to_rust_type(Serialize(node.key), res.input, FALSE).text
                        \o ", "
                        \o to_rust_type(Serialize(node.val), res.input, FALSE).text
                        \o ">"
        /\ (sig = <<"a", "{", "s", "v", "}">> =>
              res.text = IF res.input
                         THEN "std::collections::HashMap<&str, zbus::zvariant::Value<'_>>"
                         ELSE "std::collections::HashMap<String, zbus::zvariant::OwnedValue>")

C3_Witness ==
    /\ Projected
    /\ sig = <<"a", "{", "s", "v", "}">>
    /\ res.input /\ res.as_ref
    /\ res.text = "std::collections::HashMap<&str, zbus::zvariant::Value<'_>>"

\* C5: with the final byte of a valid struct, array or map signature removed,
\* the walk of to_rust_type fails (panics); it returns no type text.
C5_TruncatedFails ==
    (res.op = "project" /\ truncated) => ~res.ok

C5_Witness ==
    /\ res.op = "project"
    /\ truncated
    /\ sig = <<"a", "(", "a", "y", "s">>
    /\ ~res.ok

(***************************************************************************)
(* The parameter list and return shape a member's arguments call for.      *)
(***************************************************************************)
InArgs(as) == SelectSeq(as, LAMBDA a : a.direction /= "out")

OutArgs(as) == SelectSeq(as, LAMBDA a : a.direction = "out")

\* The i-th parameter's name: its own, or arg_k for the k-th unnamed one.
ParamName(as, i) ==
    IF as[i].name.some THEN Str(to_identifier(as[i].name.s))
    ELSE "arg_" \o to_decimal(Cardinality({j \in 1..i : ~as[j].name.some}))

\* "&self" followed by one "name: type" per argument of as, in order.
ParamList(as, as_ref) ==
    join(<<"&self">> \o
         [i \in 1..Len(as) |->
             ParamName(as, i) \o ": " \o to_rust_type(as[i].ty, TRUE, as_ref).text],
         ", ")

OutTypes(as) ==
    [i \in 1..Len(OutArgs(as)) |-> to_rust_type(OutArgs(as)[i].ty, FALSE, FALSE).text]

\* Whether as_ref changes the text of an input of this signature.
ByRefShows(ty) == ty[1] \in {"o", "g", "v", "("}

\* C4 as claimed: a method's In/unspecified arguments get the parameter text
\* a signal gets for the same arguments, the projection with is_input = true
\* and is_by_reference = false.
C4_MethodInputsLikeSignalArgs ==
    (call.op = "method" /\ OutArgs(args) = <<>>) =>
        /\ call.inputs = parse_signal_args(args).inputs
        /\ call.inputs = ParamList(args, FALSE)

\* C4 as amended: a method's In/unspecified arguments are projected with
\* is_input = true and is_by_reference = true, a signal's arguments with
\* is_input = true and is_by_reference = false; the two parameter lists are
\* equal exactly when no signature starts with o, g, v or (.
C4_MethodByRefSignalOwned ==
    /\ (call.op = "method" /\ OutArgs(args) = <<>>) =>
          /\ call.ok
          /\ call.inputs = ParamList(args, TRUE)
          /\ (call.inputs = parse_signal_args(args).inputs
                <=> \A i \in 1..Len(args) : ~ByRefShows(args[i].ty))
    /\ call.op = "signal" =>
          /\ call.ok
          /\ call.inputs = ParamList(args, FALSE)

C4_Witness ==
    /\ call.op = "method"
    /\ args = <<Arg(NoName, "none", <<"o">>), Arg(NoName, "in", <<"s">>)>>
    /\ call.inputs = "&self, arg_1: &zbus::zvariant::ObjectPath<'_>, arg_2: &str"

\* C7: the parameter list is &self followed by the In/unspecified arguments
\* in declared order and holds no Out argument; the return shape is built from
\* the Out arguments alone: () for none, the one output type itself for one, a
\* tuple of the output types in declared order for more.
C7_InputsAndReturnShape ==
    call.op = "method" =>
        /\ call.ok
        /\ call.inputs = ParamList(InArgs(args), TRUE)
        /\ call.output = " -> zbus::Result<"
                           \o (IF Len(OutTypes(args)) = 0 THEN "()"
                               ELSE IF Len(OutTypes(args)) = 1 THEN OutTypes(args)[1]
                               ELSE "(" \o join(OutTypes(args), ", ") \o ")")
                           \o ">"

C7_Witness ==
    /\ call.op = "method"
    /\ args = <<Arg(NoName, "out", <<"s">>), Arg(Name(<<"t", "y", "p", "e">>), "in", <<"s">>),
                Arg(NoName, "out", <<"o">>)>>
    /\ call.inputs = "&self, type_: &str"
    /\ call.output = " -> zbus::Result<(String, zbus::zvariant::OwnedObjectPath)>"

(***************************************************************************)
(* The emission order an interface calls for.                              *)
(***************************************************************************)
\* a comes before b in byte-wise lexicographic order.
BytewiseBefore(a, b) ==
    \/ Len(a) < Len(b) /\ \A i \in 1..Len(a) : a[i] = b[i]
    \/ \E k \in 1..Len(a) :
          /\ k <= Len(b)
          /\ \A i \in 1..(k - 1) : a[i] = b[i]
          /\ byte(a[k]) < byte(b[k])

Members(list) == {list[i] : i \in 1..Len(list)}

\* The members of a set with distinct names, in ascending byte-wise order.
Ascending(set) ==
    CHOOSE s \in [1..Cardinality(set) -> set] :
        \A i, j \in 1..Cardinality(set) : i < j => BytewiseBefore(s[i].name, s[j].name)

\* C8: the methods, then the signals, then the properties are written, each
\* group in ascending byte-wise order of the names (Alpha, Zeta, beta); the
\* text depends only on the sets of members, not on their document order.
C8_SortedAndOrderFree ==
    out.op = "write" =>
        /\ out.ok
        /\ out.text = write_members(gen,
                                    Ascending(Members(gen.interface.methods)),
                                    Ascending(Members(gen.interface.signals)),
                                    Ascending(Members(gen.interface.properties)),
                                    overflow_checks).text
        /\ (Names(gen.interface.methods) = MemberNames =>
              [i \in 1..3 |-> sort_by_name(gen.interface.methods)[i].name]
                 = <<<<"A", "l", "p", "h", "a">>, <<"Z", "e", "t", "a">>,
                     <<"b", "e", "t", "a">>>>)

C8_Witness ==
    /\ out.op = "write"
    /\ out.ok
    /\ [i \in 1..Len(gen.interface.methods) |-> gen.interface.methods[i].name]
          = <<<<"Z", "e", "t", "a">>, <<"b", "e", "t", "a">>, <<"A", "l", "p", "h", "a">>>>
    /\ [i \in 1..Len(gen.interface.signals) |-> gen.interface.signals[i].name]
          = <<<<"b", "e", "t", "a">>, <<"Z", "e", "t", "a">>>>
    /\ [i \in 1..Len(gen.interface.properties) |-> gen.interface.properties[i].name]
          = <<<<"Z", "e", "t", "a">>, <<"A", "l", "p", "h", "a">>>>

\* C6 as claimed: if rustfmt cannot be started, fails during the exchange or
\* produces no output, fmt still writes exactly the unformatted text; it
\* never writes an empty text.
C6_FallbackToUnformatted ==
    pc = "done" =>
        /\ rendered /= <<>>
        /\ (result = "err" \/ rendered = <<>>) => rendered = unformatted

\* C10 as claimed: the caller never waits for the child to exit while the
\* child is blocked writing output the caller has not read.
C10_NoWaitOnBlockedChild ==
    ~(/\ pc = "wait"
      /\ child = "writing"
      /\ child_out /= <<>>
      /\ Len(stdout_pipe) = cap)

\* C9 as claimed: no + or * of the estimate leaves the u32 range for a valid
\* signature within the nesting limits, so the estimate always returns the
\* exact score.
C9_NoOverflow ==
    Estimated => (res.ok /\ ~res.ovf)

=============================================================================
